---- MODULE Spec2Model ----
(***************************************************************************)
(* Loan-policy eligibility assistant (src/app.py).                         *)
(*                                                                         *)
(* Three specifications share the variables below:                         *)
(*   Spec     check_eligibility applied to every input of a bounded set;   *)
(*   SpecCap  compute_amount_cap applied to every input of a bounded set;  *)
(*   SpecApp  the Streamlit script (document load, guard, form), one       *)
(*            action per script run.                                       *)
(*                                                                         *)
(* Conventions.  A Python value that may be None (or NaN in a pandas row)  *)
(* is a set with at most one element: {} is None, {x} is the value x.      *)
(* Money is an integer number of currency units; the salaries drawn are    *)
(* multiples of 100, so base_salary * (percent / 100.0) is an integer and  *)
(* is computed exactly.  min_tenure_years is carried in eighths of a year  *)
(* (1.375 years is 11), which a float represents exactly, so that          *)
(* round(years * 12) keeps Python's round-half-to-even.                    *)
(***************************************************************************)
EXTENDS Integers, Sequences, FiniteSets, TLC

VARIABLES
    pc,                \* position of the run
    emp_row,           \* {} or {[base_salary |-> opt, tenure_months |-> opt]}
    requested_amount,  \* {} or {amount}
    answers,           \* function: answered checklist items -> BOOLEAN
    policy,            \* [checklist |-> Seq(item), rules |-> record of options]
    result,            \* {} or {[verdict |-> .., extra |-> ..]}: check_eligibility's return
    cap_in,            \* base_salary handed to compute_amount_cap
    cap_out,           \* <<>> or <<opt>>: compute_amount_cap's return
    fs,                \* the two documents on disk
    app,               \* the script's module-level names once assigned
    shown              \* what the script run put on the page

vars == <<pc, emp_row, requested_amount, answers, policy, result, cap_in, cap_out, fs, app, shown>>

None == {}
Some(x) == {x}
IsNone(o) == o = {}
Val(o) == CHOOSE x \in o : TRUE

\* ------------------------------------------------------------- messages
HUMAN_ESCALATION == "Would you like to speak to a human?"
MSG_TENURE == "Not eligible (tenure below minimum as per policy)."
MSG_BASE_SALARY == "Not eligible (base salary below minimum as per policy)."
MSG_CHECKLIST == "Not eligible (failed policy checklist)."
MSG_CONDITIONAL == "Conditionally eligible up to {cap:,.2f} (requested exceeds policy cap)."
MSG_ELIGIBLE == "Eligible per current policy and records."

\* The details dict returned beside the message: absent keys are None.
Extra(reason, failed_item, cap) ==
    [reason |-> reason, failed_item |-> failed_item, cap |-> cap]
NoExtra == Extra(None, None, None)
Ret(verdict, extra) == [verdict |-> verdict, extra |-> extra]

\* ------------------------------------------------------------- helpers
\* min() over a non-empty list.
RECURSIVE MinOf(_)
MinOf(caps) ==
    IF Len(caps) = 1 THEN caps[1]
    ELSE LET m == MinOf(Tail(caps)) IN IF caps[1] <= m THEN caps[1] ELSE m

\* Mutant: halves always go up.
RoundHalfEven_HalfUp(n, d) ==
    LET q == n \div d
        r == n % d
    IN  IF 2 * r < d THEN q ELSE q + 1

\* Python round(n / d) for n >= 0, d > 0: halves go to the even neighbour.
RoundHalfEven(n, d) ==
    LET q == n \div d
        r == n % d
    IN  IF 2 * r < d THEN q
        ELSE IF 2 * r > d THEN q + 1
        ELSE IF q % 2 = 0 THEN q ELSE q + 1

\* int(round(float(min_tenure_years) * 12)), min_tenure_years in eighths.
YearsToMonths(years8) == RoundHalfEven(3 * years8, 2)

\* ------------------------------------------------------------- compute_amount_cap
\* Mutant: the salary multiple is applied whatever multiple_context says.
compute_amount_cap_AnyContext(base_salary, rules) ==
    LET c1 == IF ~IsNone(rules.max_loan_amount)
              THEN <<Val(rules.max_loan_amount)>> ELSE <<>>
        c2 == IF ~IsNone(rules.max_salary_multiple) /\ ~IsNone(base_salary)
              THEN <<Val(rules.max_salary_multiple) * Val(base_salary)>> ELSE <<>>
        c3 == IF ~IsNone(rules.max_percent_of_salary) /\ ~IsNone(base_salary)
              THEN <<(Val(base_salary) * Val(rules.max_percent_of_salary)) \div 100>>
              ELSE <<>>
        caps == c1 \o c2 \o c3
    IN  IF caps = <<>> THEN None ELSE Some(MinOf(caps))

\* Mutant: the percentage cap is taken off the absolute cap instead of standing
\* beside it, so the cap falls as the salary rises.
compute_amount_cap_PercentDeducted(base_salary, rules) ==
    LET pct == IF ~IsNone(rules.max_percent_of_salary) /\ ~IsNone(base_salary)
               THEN (Val(base_salary) * Val(rules.max_percent_of_salary)) \div 100
               ELSE 0
        c1 == IF ~IsNone(rules.max_loan_amount)
              THEN <<Val(rules.max_loan_amount) - pct>> ELSE <<>>
        c2 == IF /\ rules.multiple_context = Some("months")
                 /\ ~IsNone(rules.max_salary_multiple)
                 /\ ~IsNone(base_salary)
              THEN <<Val(rules.max_salary_multiple) * Val(base_salary)>> ELSE <<>>
        caps == c1 \o c2
    IN  IF caps = <<>> THEN None ELSE Some(MinOf(caps))

compute_amount_cap(base_salary, rules) ==
    LET c1 == IF ~IsNone(rules.max_loan_amount)
              THEN <<Val(rules.max_loan_amount)>> ELSE <<>>
        c2 == IF /\ rules.multiple_context = Some("months")
                 /\ ~IsNone(rules.max_salary_multiple)
                 /\ ~IsNone(base_salary)
              THEN <<Val(rules.max_salary_multiple) * Val(base_salary)>> ELSE <<>>
        c3 == IF ~IsNone(rules.max_percent_of_salary) /\ ~IsNone(base_salary)
              THEN <<(Val(base_salary) * Val(rules.max_percent_of_salary)) \div 100>>
              ELSE <<>>
        caps == c1 \o c2 \o c3
    IN  IF caps = <<>> THEN None ELSE Some(MinOf(caps))

\* ------------------------------------------------------------- check_eligibility
\* Mutant: a missing answer is read as False (answers.get(item)).
RECURSIVE ChecklistLoop_MissingIsFalse(_, _)
ChecklistLoop_MissingIsFalse(checklist, ans) ==
    IF checklist = <<>> THEN None
    ELSE LET item == Head(checklist) IN
         IF item \notin DOMAIN ans \/ ans[item] # TRUE
         THEN Some(Ret(MSG_CHECKLIST, Extra(Some("checklist"), Some(item), None)))
         ELSE ChecklistLoop_MissingIsFalse(Tail(checklist), ans)

\* Mutant: the loop is left after its first item.
ChecklistLoop_FirstItemOnly(checklist, ans) ==
    IF checklist = <<>> THEN None
    ELSE LET item == Head(checklist) IN
         IF item \notin DOMAIN ans THEN Some(Ret(HUMAN_ESCALATION, NoExtra))
         ELSE IF ans[item] # TRUE
              THEN Some(Ret(MSG_CHECKLIST, Extra(Some("checklist"), Some(item), None)))
         ELSE None

\* The for loop over the checklist: the first item that is missing or not True
\* returns; None when the loop runs to its end.
RECURSIVE ChecklistLoop(_, _)
ChecklistLoop(checklist, ans) ==
    IF checklist = <<>> THEN None
    ELSE LET item == Head(checklist) IN
         IF item \notin DOMAIN ans THEN Some(Ret(HUMAN_ESCALATION, NoExtra))
         ELSE IF ans[item] # TRUE
              THEN Some(Ret(MSG_CHECKLIST, Extra(Some("checklist"), Some(item), None)))
         ELSE ChecklistLoop(Tail(checklist), ans)

\* Mutant: a request equal to the cap is already over it.
AmountCheck_AtOrAbove(base_salary, amount, rules) ==
    IF IsNone(amount) THEN Ret(MSG_ELIGIBLE, NoExtra)
    ELSE LET cap == compute_amount_cap(Some(base_salary), rules) IN
         IF IsNone(cap) THEN Ret(HUMAN_ESCALATION, NoExtra)
         ELSE IF Val(amount) >= Val(cap)
              THEN Ret(MSG_CONDITIONAL, Extra(None, None, cap))
         ELSE Ret(MSG_ELIGIBLE, NoExtra)

\* The amount block of check_eligibility and its final return.
AmountCheck(base_salary, amount, rules) ==
    IF IsNone(amount) THEN Ret(MSG_ELIGIBLE, NoExtra)
    ELSE LET cap == compute_amount_cap(Some(base_salary), rules) IN
         IF IsNone(cap) THEN Ret(HUMAN_ESCALATION, NoExtra)
         ELSE IF Val(amount) > Val(cap)
              THEN Ret(MSG_CONDITIONAL, Extra(None, None, cap))
         ELSE Ret(MSG_ELIGIBLE, NoExtra)

TenureGate(tenure_months, rules) ==
    \/ /\ ~IsNone(rules.min_tenure_months)
       /\ tenure_months < Val(rules.min_tenure_months)
    \/ /\ ~IsNone(rules.min_tenure_years)
       /\ tenure_months < YearsToMonths(Val(rules.min_tenure_years))

SalaryGate(base_salary, rules) ==
    /\ ~IsNone(rules.min_base_salary)
    /\ base_salary < Val(rules.min_base_salary)

\* Mutant: the checklist is walked before the tenure and salary-floor gates.
check_eligibility_ChecklistFirst(emp, amount, ans, pol) ==
    IF \/ IsNone(emp)
       \/ IsNone(Val(emp).base_salary)
       \/ IsNone(Val(emp).tenure_months)
    THEN Ret(HUMAN_ESCALATION, NoExtra)
    ELSE
    LET base_salary == Val(Val(emp).base_salary)
        tenure_months == Val(Val(emp).tenure_months)
        rules == pol.rules
        chk == ChecklistLoop(pol.checklist, ans)
    IN  IF ~IsNone(chk) THEN Val(chk)
        ELSE IF TenureGate(tenure_months, rules)
        THEN Ret(MSG_TENURE, Extra(Some("tenure"), None, None))
        ELSE IF SalaryGate(base_salary, rules)
        THEN Ret(MSG_BASE_SALARY, Extra(Some("base_salary"), None, None))
        ELSE AmountCheck(base_salary, amount, rules)

check_eligibility(emp, amount, ans, pol) ==
    IF \/ IsNone(emp)
       \/ IsNone(Val(emp).base_salary)
       \/ IsNone(Val(emp).tenure_months)
    THEN Ret(HUMAN_ESCALATION, NoExtra)
    ELSE
    LET base_salary == Val(Val(emp).base_salary)
        tenure_months == Val(Val(emp).tenure_months)
        rules == pol.rules
        chk == ChecklistLoop(pol.checklist, ans)
    IN  IF TenureGate(tenure_months, rules)
        THEN Ret(MSG_TENURE, Extra(Some("tenure"), None, None))
        ELSE IF SalaryGate(base_salary, rules)
        THEN Ret(MSG_BASE_SALARY, Extra(Some("base_salary"), None, None))
        ELSE IF ~IsNone(chk) THEN Val(chk)
        ELSE AmountCheck(base_salary, amount, rules)

NoRules ==
    [min_tenure_months |-> None, min_tenure_years |-> None, max_loan_amount |-> None,
     max_salary_multiple |-> None, multiple_context |-> None,
     max_percent_of_salary |-> None, min_base_salary |-> None]
\* The policy dict as first built (lines 35-46); {"checklist": [], "rules": {}} reads
\* the same through rules.get.
EmptyPolicy == [checklist |-> <<>>, rules |-> NoRules]

\* ------------------------------------------------------------- documents
\* A text is a sequence of tokens: a whitespace character, a backslash, any other
\* run of characters, or one of the phrasings the policy parser is documented to look
\* for, carrying its number.
Tok(k, v) == [k |-> k, v |-> v]
SP == Tok("space", 0)
BS == Tok("backslash", 0)
CH == Tok("chars", 0)
MultiplePhrase(n) == Tok("months of salary", n)   \* "up to n months of salary"
PercentPhrase(n) == Tok("% of salary", n)         \* "maximum n% of salary"

\* "\\n" in a non-raw string literal: a backslash and the letter n, not a newline.
PageSeparator == <<BS, CH>>

RECURSIVE JoinPages(_)
JoinPages(pages) ==
    IF pages = <<>> THEN <<>>
    ELSE IF Len(pages) = 1 THEN pages[1]
    ELSE pages[1] \o PageSeparator \o JoinPages(Tail(pages))

\* PdfReader raising on the file gives "".
read_pdf_text(pdf) ==
    IF pdf.state = "unreadable" THEN <<>> ELSE JoinPages(pdf.pages)

\* not text.strip()
Blank(text) == \A i \in DOMAIN text : text[i] = SP

Returned(value) == [raised |-> FALSE, value |-> value]
Raised == [raised |-> TRUE, value |-> EmptyPolicy]

\* extract_policy_checklist_and_rules.  A blank text returns the empty policy at
\* line 50.  For any other text: the class [ \\t] of line 52 is written in a raw
\* string, so it holds the space, the backslash and the letter t, and re.sub turns
\* every backslash of the text into a space; the bullet pattern (lines 68-75) and the
\* patterns of lines 87-101 are raw strings too and each needs a backslash in its
\* subject (\\s is a backslash followed by s), so no bullet and no rule is found up
\* to line 101; the pattern of line 104 holds \\$?, a backslash followed by a repeated
\* end anchor, which re refuses to compile ("nothing to repeat"): re.search raises
\* re.error, nothing catches it, and the function never returns.
extract_policy_checklist_and_rules(policy_text) ==
    IF Blank(policy_text) THEN Returned(EmptyPolicy) ELSE Raised

\* Column headers after lower().strip(), and what the alias tests of lines 130-132
\* say of each.
Headers == {"name", "base salary", "gross salary", "tenure"}
IsNameHeader(k) == k \in {"name", "employee", "employee name"}
HasSalary == {"base salary", "gross salary"}   \* "salary" in k
HasBase == {"base salary"}                      \* "base" in k
IsSalaryHeader(k) ==
    \/ (k \in HasSalary /\ k \in HasBase)
    \/ k \in {"salary", "base salary", "current base salary"}
IsTenureHeader(k) == k \in {"tenure"}   \* "tenure" in k or "years" in k or "months" in k

\* A row after tenure_to_months and to_money, None standing for a cell they gave up on.
Row(name, base_salary, tenure_months) ==
    [name |-> name, base_salary |-> base_salary, tenure_months |-> tenure_months]
Complete(row) == ~IsNone(row.base_salary) /\ ~IsNone(row.tenure_months)

\* load_employees: None for a workbook that cannot be read or lacks a name, salary or
\* tenure column; else the rows with every critical cell present.
load_employees(xlsx) ==
    IF xlsx.state = "unreadable" THEN None
    ELSE IF ~(/\ \E k \in xlsx.columns : IsNameHeader(k)
              /\ \E k \in xlsx.columns : IsSalaryHeader(k)
              /\ \E k \in xlsx.columns : IsTenureHeader(k))
    THEN None
    ELSE Some(SelectSeq(xlsx.rows, Complete))

\* Module-level names of the script; a name not yet assigned is not in "assigned".
Globals(assigned, policy_text, pol, employees) ==
    [assigned |-> assigned, policy_text |-> policy_text, policy |-> pol,
     employees |-> employees]
NoGlobals == Globals({}, <<>>, EmptyPolicy, None)
NoFiles ==
    [pdf |-> [state |-> "missing", pages |-> <<>>],
     xlsx |-> [state |-> "missing", columns |-> {}, rows |-> <<>>]]

\* has_any_policy (line 272).
has_any_policy(pol) ==
    \/ pol.checklist # <<>>
    \/ \E f \in DOMAIN pol.rules : ~IsNone(pol.rules[f])

\* The severity the form gives a verdict (lines 306-313).
Severity(verdict) ==
    IF verdict = HUMAN_ESCALATION THEN "warning"
    ELSE IF verdict \in {MSG_TENURE, MSG_BASE_SALARY, MSG_CHECKLIST} THEN "error"
    ELSE IF verdict = MSG_CONDITIONAL THEN "info"
    ELSE "success"
Show(level, text) == [level |-> level, text |-> text]

\* ------------------------------------------------------------- input domains
MaxChecklist == 2

Items == {"Confirmed by supervisor", "No active loan"}
Checklists == UNION {[1..n -> Items] : n \in 0..MaxChecklist}
AnswerMaps == UNION {[K -> BOOLEAN] : K \in SUBSET Items}

Salaries == {3000, 30000}
Tenures == {6, 15, 16}
Employees ==
    {None}
    \cup {Some([base_salary |-> None, tenure_months |-> Some(16)]),
          Some([base_salary |-> Some(30000), tenure_months |-> None])}
    \cup {Some([base_salary |-> Some(s), tenure_months |-> Some(t)]) :
              s \in Salaries, t \in Tenures}
Amounts == {None, Some(10000), Some(20000)}

RuleSets ==
    [min_tenure_months : {None, Some(12)},
     min_tenure_years : {None, Some(11)},
     max_loan_amount : {None, Some(10000)},
     max_salary_multiple : {None, Some(3)},
     multiple_context : {None, Some("months")},
     max_percent_of_salary : {None, Some(50)},
     min_base_salary : {None, Some(5000)}]
Policies == [checklist : Checklists, rules : RuleSets]

EmptyAnswers == [k \in {} |-> TRUE]

\* ------------------------------------------------------------- Spec: the evaluator
Init ==
    /\ pc = "input"
    /\ emp_row \in Employees
    /\ requested_amount \in Amounts
    /\ answers \in AnswerMaps
    /\ policy \in Policies
    /\ result = None
    /\ cap_in = None
    /\ cap_out = <<>>
    /\ fs = NoFiles
    /\ app = NoGlobals
    /\ shown = <<>>

CheckEligibility ==
    /\ pc = "input"
    /\ result' = Some(check_eligibility(emp_row, requested_amount, answers, policy))
    /\ pc' = "verdict"
    /\ UNCHANGED <<emp_row, requested_amount, answers, policy, cap_in, cap_out, fs, app, shown>>

Next == CheckEligibility

Spec == Init /\ [][Next]_vars

\* ------------------------------------------------------------- properties of the evaluator
\* What the properties read off a state, written from the inputs alone.
Done == pc = "verdict"
Verdict == Val(result).verdict
Details == Val(result).extra
Usable ==
    /\ ~IsNone(emp_row)
    /\ ~IsNone(Val(emp_row).base_salary)
    /\ ~IsNone(Val(emp_row).tenure_months)
Salary == Val(Val(emp_row).base_salary)
Tenure == Val(Val(emp_row).tenure_months)
\* The whole number of months nearest to years8 / 8 * 12, a tie going to the even one.
NearestMonths(years8) ==
    CHOOSE m \in 0..(2 * years8 + 1) :
        LET d == IF 2 * m >= 3 * years8 THEN 2 * m - 3 * years8 ELSE 3 * years8 - 2 * m
        IN  d <= 1 /\ (d = 1 => m % 2 = 0)
BelowMonths ==
    ~IsNone(policy.rules.min_tenure_months) /\ Tenure < Val(policy.rules.min_tenure_months)
BelowYears ==
    /\ ~IsNone(policy.rules.min_tenure_years)
    /\ Tenure < NearestMonths(Val(policy.rules.min_tenure_years))
BelowSalaryFloor ==
    ~IsNone(policy.rules.min_base_salary) /\ Salary < Val(policy.rules.min_base_salary)
\* The evaluation reaches the checklist: a usable record that the tenure and the
\* salary-floor gates do not reject.
PastEarlyGates == Usable /\ ~BelowMonths /\ ~BelowYears /\ ~BelowSalaryFloor
Positions == DOMAIN policy.checklist
Absent(i) == policy.checklist[i] \notin DOMAIN answers
AnsweredFalse(i) == ~Absent(i) /\ answers[policy.checklist[i]] = FALSE
AnsweredTrue(i) == ~Absent(i) /\ answers[policy.checklist[i]] = TRUE
SomeAbsent == \E i \in Positions : Absent(i)
FirstAbsent == CHOOSE i \in Positions : Absent(i) /\ \A j \in Positions : Absent(j) => i <= j
AllAnswered == \A i \in Positions : ~Absent(i)
NotEligibleMsgs == {MSG_TENURE, MSG_BASE_SALARY, MSG_CHECKLIST}

\* C1 as stated: whenever some checklist item has no answer, the verdict is the
\* human-escalation message (never NotEligible, never Eligible), whatever the
\* employee, the rules and the other answers are.
C1_Original ==
    (Done /\ SomeAbsent) => Verdict = HUMAN_ESCALATION

\* C1 as amended: whenever some checklist item has no answer, the verdict is never
\* Eligible or ConditionallyEligible; it is the human-escalation message (with empty
\* details) when the record is unusable, or when the tenure and salary-floor gates
\* pass and no item before the first absent one is answered false; a usable record
\* the tenure or the salary-floor gate rejects, or an earlier item answered false,
\* yields NotEligible.
C1_MissingAnswerEscalates ==
    (Done /\ SomeAbsent) =>
        LET reached == PastEarlyGates /\ \A j \in 1..(FirstAbsent - 1) : AnsweredTrue(j) IN
        /\ Verdict \notin {MSG_ELIGIBLE, MSG_CONDITIONAL}
        /\ (~Usable \/ reached) => (Verdict = HUMAN_ESCALATION /\ Details = NoExtra)
        /\ (Usable /\ ~reached) => Verdict \in NotEligibleMsgs

\* C1 witness: the first item is answered true, the second has no answer, the early
\* gates pass, and the evaluation escalated.
C1_Witness ==
    /\ Done /\ PastEarlyGates
    /\ Len(policy.checklist) = 2
    /\ AnsweredTrue(1) /\ Absent(2)
    /\ ~IsNone(requested_amount)
    /\ Verdict = HUMAN_ESCALATION

\* C2: a usable record whose tenure is below a set min_tenure_months is NotEligible
\* with reason tenure, whatever the checklist, the answers, the other rules and the
\* requested amount are.
C2_TenureBelowMinimum ==
    (Done /\ Usable /\ BelowMonths) =>
        /\ Verdict = MSG_TENURE
        /\ Details = Extra(Some("tenure"), None, None)

\* C2 witness: tenure below min_tenure_months with a checklist item unanswered, a
\* salary below the floor and an amount requested; the verdict is NotEligible(tenure).
C2_Witness ==
    /\ Done /\ Usable /\ BelowMonths
    /\ ~BelowYears /\ BelowSalaryFloor
    /\ SomeAbsent /\ ~IsNone(requested_amount)
    /\ Verdict = MSG_TENURE

C5_AmountCheck ==
    (Done /\ PastEarlyGates /\ \A i \in Positions : AnsweredTrue(i)) =>
        LET cap == compute_amount_cap(Some(Salary), policy.rules) IN
        /\ IsNone(requested_amount) => Val(result) = Ret(MSG_ELIGIBLE, NoExtra)
        /\ (~IsNone(requested_amount) /\ IsNone(cap)) =>
              Val(result) = Ret(HUMAN_ESCALATION, NoExtra)
        /\ (~IsNone(requested_amount) /\ ~IsNone(cap) /\ Val(requested_amount) > Val(cap)) =>
              Val(result) = Ret(MSG_CONDITIONAL, Extra(None, None, cap))
        /\ (~IsNone(requested_amount) /\ ~IsNone(cap) /\ Val(requested_amount) <= Val(cap)) =>
              Val(result) = Ret(MSG_ELIGIBLE, NoExtra)

\* C5 witness: all gates pass with a non-empty checklist and the requested amount
\* equals the cap exactly; the verdict is Eligible.
C5_Witness ==
    /\ Done /\ PastEarlyGates
    /\ Positions # {} /\ \A i \in Positions : AnsweredTrue(i)
    /\ ~IsNone(requested_amount)
    /\ compute_amount_cap(Some(Salary), policy.rules) = requested_amount
    /\ Verdict = MSG_ELIGIBLE

\* The gates in their order, each with whether it fails and what it returns.
Gate(fails, out) == [fails |-> fails, out |-> out]
ItemGate(i) ==
    IF Absent(i) THEN Gate(TRUE, Ret(HUMAN_ESCALATION, NoExtra))
    ELSE Gate(AnsweredFalse(i),
              Ret(MSG_CHECKLIST, Extra(Some("checklist"), Some(policy.checklist[i]), None)))
CapGates ==
    LET cap == compute_amount_cap(Some(Salary), policy.rules) IN
    <<Gate(~IsNone(requested_amount) /\ IsNone(cap), Ret(HUMAN_ESCALATION, NoExtra)),
      Gate(~IsNone(requested_amount) /\ ~IsNone(cap) /\ Val(requested_amount) > Val(cap),
           Ret(MSG_CONDITIONAL, Extra(None, None, cap)))>>
GatesInOrder ==
    <<Gate(BelowMonths, Ret(MSG_TENURE, Extra(Some("tenure"), None, None))),
      Gate(BelowYears, Ret(MSG_TENURE, Extra(Some("tenure"), None, None))),
      Gate(BelowSalaryFloor, Ret(MSG_BASE_SALARY, Extra(Some("base_salary"), None, None)))>>
    \o [i \in Positions |-> ItemGate(i)]
    \o CapGates
EarliestFailure ==
    IF ~Usable THEN Ret(HUMAN_ESCALATION, NoExtra)
    ELSE LET failing == {k \in DOMAIN GatesInOrder : GatesInOrder[k].fails} IN
         IF failing = {} THEN Ret(MSG_ELIGIBLE, NoExtra)
         ELSE GatesInOrder[CHOOSE k \in failing : \A l \in failing : k <= l].out

\* C10: the result is the outcome of the earliest failing gate in the order
\* precondition, min_tenure_months, min_tenure_years (threshold round(years*12)),
\* min_base_salary, checklist items in checklist order, amount cap, and Eligible
\* when none fails.  In particular a salary below the floor gives
\* NotEligible(base_salary) even with answers missing, and a tenure below either set
\* threshold gives NotEligible(tenure).
C10_GateOrder ==
    Done =>
        /\ Val(result) = EarliestFailure
        /\ (PastEarlyGates => Verdict \notin {MSG_TENURE, MSG_BASE_SALARY})
        /\ (Usable /\ ~BelowMonths /\ ~BelowYears /\ BelowSalaryFloor)
              => Verdict = MSG_BASE_SALARY
        /\ (Usable /\ (BelowMonths \/ BelowYears)) => Verdict = MSG_TENURE

\* C10 witness: tenure meets both set thresholds (16 months against 1.375 years,
\* which rounds to 16), the salary is below the floor and a checklist item has no
\* answer; the verdict is NotEligible(base_salary).
C10_Witness ==
    /\ Done /\ Usable
    /\ ~IsNone(policy.rules.min_tenure_months)
    /\ ~IsNone(policy.rules.min_tenure_years)
    /\ Tenure = NearestMonths(Val(policy.rules.min_tenure_years))
    /\ BelowSalaryFloor /\ SomeAbsent
    /\ Verdict = MSG_BASE_SALARY

\* ------------------------------------------------------------- SpecCap: compute_amount_cap
\* check_eligibility hands compute_amount_cap float(emp_row["base_salary"]), never None.
CapSalaries == {3000, 30000, 60000}
CapRuleSets ==
    {[NoRules EXCEPT !.max_loan_amount = a, !.max_salary_multiple = m,
                     !.multiple_context = c, !.max_percent_of_salary = p] :
        a \in {None, Some(10000), Some(100000)},
        m \in {None, Some(0), Some(3)},
        c \in {None, Some("months")},
        p \in {None, Some(50), Some(400)}}

InitCap ==
    /\ pc = "cap_input"
    /\ cap_in \in {Some(s) : s \in CapSalaries}
    /\ policy \in [checklist : {<<>>}, rules : CapRuleSets]
    /\ cap_out = <<>>
    /\ emp_row = None
    /\ requested_amount = None
    /\ answers = EmptyAnswers
    /\ result = None
    /\ fs = NoFiles
    /\ app = NoGlobals
    /\ shown = <<>>

ComputeAmountCap ==
    /\ pc = "cap_input"
    /\ cap_out' = <<compute_amount_cap(cap_in, policy.rules)>>
    /\ pc' = "cap"
    /\ UNCHANGED <<emp_row, requested_amount, answers, policy, result, cap_in, fs, app, shown>>

NextCap == ComputeAmountCap

SpecCap == InitCap /\ [][NextCap]_vars

\* The caps that apply to the salary in cap_in under the rules of the state.
CapDone == pc = "cap"
Cap == cap_out[1]
ApplicableCaps(salary, rules) ==
    (IF IsNone(rules.max_loan_amount) THEN {} ELSE {Val(rules.max_loan_amount)})
    \cup (IF IsNone(rules.max_salary_multiple) \/ rules.multiple_context # Some("months")
          THEN {} ELSE {Val(rules.max_salary_multiple) * salary})
    \cup (IF IsNone(rules.max_percent_of_salary)
          THEN {} ELSE {(Val(rules.max_percent_of_salary) * salary) \div 100})

\* C6: compute_amount_cap returns the least of exactly the applicable caps:
\* max_loan_amount if set, max_salary_multiple * base_salary only if set with
\* multiple_context "months", max_percent_of_salary * base_salary / 100 if set; it is
\* None exactly when none applies; a multiple with another context changes nothing.
C6_CapIsMinOfApplicable ==
    CapDone =>
        LET A == ApplicableCaps(Val(cap_in), policy.rules) IN
        /\ IsNone(Cap) <=> A = {}
        /\ ~IsNone(Cap) => (Val(Cap) \in A /\ \A a \in A : Val(Cap) <= a)
        /\ policy.rules.multiple_context # Some("months") =>
              \A m \in {None, Some(0), Some(3)} :
                  Cap = compute_amount_cap(cap_in,
                            [policy.rules EXCEPT !.max_salary_multiple = m])

\* C6 witness: a multiple is set without the "months" context, it would have been the
\* least cap, and the cap returned is the absolute one.
C6_Witness ==
    /\ CapDone
    /\ policy.rules.multiple_context = None
    /\ ~IsNone(policy.rules.max_salary_multiple)
    /\ ~IsNone(policy.rules.max_loan_amount)
    /\ ~IsNone(policy.rules.max_percent_of_salary)
    /\ Val(policy.rules.max_salary_multiple) * Val(cap_in) < Val(policy.rules.max_loan_amount)
    /\ Cap = policy.rules.max_loan_amount

\* C7: with the rules fixed (multiple and percentage non-negative), the cap for a
\* lower base salary is never above the cap for a higher one, a cap exists for the
\* one exactly when it exists for the other, and when only max_loan_amount is set
\* the cap is max_loan_amount for every base salary.
C7_CapMonotonic ==
    (/\ CapDone
     /\ \A m \in policy.rules.max_salary_multiple : m >= 0
     /\ \A p \in policy.rules.max_percent_of_salary : p >= 0) =>
        /\ \A s \in CapSalaries :
              LET c == compute_amount_cap(Some(s), policy.rules) IN
              /\ IsNone(c) <=> IsNone(Cap)
              /\ (~IsNone(c) /\ s <= Val(cap_in)) => Val(c) <= Val(Cap)
              /\ (~IsNone(c) /\ s >= Val(cap_in)) => Val(c) >= Val(Cap)
        /\ (/\ ~IsNone(policy.rules.max_loan_amount)
            /\ IsNone(policy.rules.max_percent_of_salary)
            /\ (IsNone(policy.rules.max_salary_multiple)
                  \/ policy.rules.multiple_context # Some("months"))) =>
              \A s \in CapSalaries :
                  compute_amount_cap(Some(s), policy.rules) = policy.rules.max_loan_amount

\* C7 witness: absolute, multiple and percentage caps all apply, and the cap of the
\* salary in cap_in is strictly above the cap of a lower salary.
C7_Witness ==
    /\ CapDone
    /\ Cardinality(ApplicableCaps(Val(cap_in), policy.rules)) = 3
    /\ \E s \in CapSalaries :
          /\ s < Val(cap_in)
          /\ Val(compute_amount_cap(Some(s), policy.rules)) < Val(Cap)

\* ------------------------------------------------------------- SpecApp: the script
MaxPages == 2
MaxPageLen == 2

PageTokens == {SP, CH, MultiplePhrase(3), MultiplePhrase(6), PercentPhrase(5), PercentPhrase(50)}
PageTexts == UNION {[1..n -> PageTokens] : n \in 0..MaxPageLen}
PdfFiles ==
    {[state |-> st, pages |-> <<>>] : st \in {"missing", "unreadable"}}
    \cup {[state |-> "ok", pages |-> pg] :
             pg \in UNION {[1..n -> PageTexts] : n \in 0..MaxPages}}
RowLists ==
    {<<>>,
     <<Row("Ayesha", Some(30000), Some(16))>>,
     <<Row("Ayesha", Some(30000), Some(16)), Row("Bilal", None, Some(6))>>}
XlsxFiles ==
    {[state |-> st, columns |-> {}, rows |-> <<>>] : st \in {"missing", "unreadable"}}
    \cup {[state |-> "ok", columns |-> c, rows |-> r] : c \in SUBSET Headers, r \in RowLists}

InitApp ==
    /\ pc = "start"
    /\ fs \in [pdf : PdfFiles, xlsx : XlsxFiles]
    /\ app = NoGlobals
    /\ shown = <<>>
    /\ result = None
    /\ emp_row = None
    /\ requested_amount = None
    /\ answers = EmptyAnswers
    /\ policy = EmptyPolicy
    /\ cap_in = None
    /\ cap_out = <<>>

\* One run of the script, top to bottom, with what the user has put in the widgets:
\* the employee picked, the amount, the ticked checkboxes, the button.
RunScript ==
    /\ pc = "start"
    /\ \E pick \in 1..2, amount \in {0, 20000}, ticked \in [Items -> BOOLEAN],
          pressed \in BOOLEAN :
        LET policy_text == IF fs.pdf.state = "missing" THEN <<>> ELSE read_pdf_text(fs.pdf)
            ext == IF policy_text # <<>>
                   THEN extract_policy_checklist_and_rules(policy_text)
                   ELSE Returned(EmptyPolicy)
            pol == ext.value
            employees == IF fs.xlsx.state = "missing" THEN None
                         ELSE load_employees(fs.xlsx)
            rows == Val(employees)
            \* st.selectbox gives None for an empty list of names
            row == IF rows = <<>> \/ pick > Len(rows) THEN None ELSE Some(rows[pick])
            emp == IF IsNone(row) THEN None
                   ELSE Some([base_salary |-> Val(row).base_salary,
                              tenure_months |-> Val(row).tenure_months])
            req == IF amount > 0 THEN Some(amount) ELSE None
            ans == [item \in {pol.checklist[i] : i \in DOMAIN pol.checklist} |-> ticked[item]]
            ret == check_eligibility(emp, req, ans, pol)
        IN
        IF ext.raised
        THEN \* line 245 raises: the run ends there
             /\ pc' = "crashed"
             /\ app' = Globals({"policy_text"}, policy_text, EmptyPolicy, None)
             /\ shown' = <<>>
             /\ UNCHANGED <<emp_row, requested_amount, answers, policy, result>>
        ELSE IF ~(policy_text # <<>> /\ ~IsNone(employees) /\ has_any_policy(pol))
        THEN \* lines 273-275
             /\ pc' = "stopped"
             /\ app' = Globals({"policy_text", "policy", "employees"}, policy_text, pol,
                               employees)
             /\ shown' = <<Show("error", HUMAN_ESCALATION)>>
             /\ UNCHANGED <<emp_row, requested_amount, answers, policy, result>>
        ELSE /\ pc' = "rendered"
             /\ app' = Globals({"policy_text", "policy", "employees"}, policy_text, pol,
                               employees)
             /\ IF pressed
                THEN /\ emp_row' = emp
                     /\ requested_amount' = req
                     /\ answers' = ans
                     /\ policy' = pol
                     /\ result' = Some(ret)
                     /\ shown' = <<Show(Severity(ret.verdict), ret.verdict)>>
                ELSE /\ shown' = <<>>
                     /\ UNCHANGED <<emp_row, requested_amount, answers, policy, result>>
    /\ UNCHANGED <<fs, cap_in, cap_out>>

\* Any interaction with the page runs the script again from its first line.
Rerun ==
    /\ pc \in {"crashed", "stopped", "rendered"}
    /\ pc' = "start"
    /\ app' = NoGlobals
    /\ shown' = <<>>
    /\ result' = None
    /\ emp_row' = None
    /\ requested_amount' = None
    /\ answers' = EmptyAnswers
    /\ policy' = EmptyPolicy
    /\ UNCHANGED <<fs, cap_in, cap_out>>

NextApp == RunScript \/ Rerun

SpecApp == InitApp /\ [][NextApp]_vars

\* ------------------------------------------------------------- properties of the script
RunEnded == pc \in {"crashed", "stopped", "rendered"}
PolicyTextOnDisk == IF fs.pdf.state = "ok" THEN JoinPages(fs.pdf.pages) ELSE <<>>
RosterFailed ==
    \/ fs.xlsx.state # "ok"
    \/ ~\E k \in fs.xlsx.columns : IsNameHeader(k)
    \/ ~\E k \in fs.xlsx.columns : IsSalaryHeader(k)
    \/ ~\E k \in fs.xlsx.columns : IsTenureHeader(k)
NothingParsed == "policy" \in app.assigned /\ ~has_any_policy(app.policy)
LoadFailed == PolicyTextOnDisk = <<>> \/ RosterFailed \/ NothingParsed

\* C4: when the policy text is unavailable or empty, or the roster failed to load
\* (missing, unreadable, or a name, salary or tenure column unresolved), or parsing
\* gave no checklist item and no rule, the run shows the human-escalation message and
\* stops: check_eligibility is not invoked and no verdict is shown.
C4_LoadFailureEscalates ==
    (RunEnded /\ LoadFailed) =>
        /\ pc = "stopped"
        /\ shown = <<Show("error", HUMAN_ESCALATION)>>
        /\ result = None

\* The numbers of the tokens of one kind, in source order.
RECURSIVE PhraseValues(_, _)
PhraseValues(text, kind) ==
    IF text = <<>> THEN <<>>
    ELSE (IF Head(text).k = kind THEN <<Head(text).v>> ELSE <<>>)
         \o PhraseValues(Tail(text), kind)

\* C8: when the policy text holds the salary-multiple phrasing, respectively the
\* percentage-of-salary phrasing, more than once, the run leaves the number of its
\* last occurrence in max_salary_multiple, respectively max_percent_of_salary.
C8_LastMatchWins ==
    RunEnded =>
        LET multiples == PhraseValues(PolicyTextOnDisk, "months of salary")
            percents == PhraseValues(PolicyTextOnDisk, "% of salary")
        IN  /\ Len(multiples) >= 2 =>
                  /\ "policy" \in app.assigned
                  /\ app.policy.rules.max_salary_multiple = Some(multiples[Len(multiples)])
            /\ Len(percents) >= 2 =>
                  /\ "policy" \in app.assigned
                  /\ app.policy.rules.max_percent_of_salary = Some(percents[Len(percents)])

\* Beside C4 and C8: no run gets past the guard, so check_eligibility is never
\* invoked from the form and no verdict is shown.
FormNeverRendered == pc # "rendered" /\ result = None

====
